---- MODULE Spec2Model ----
(***************************************************************************)
(* A model of app.py, the retrieval-augmented answering service:           *)
(* DocumentProcessor (chunking), SemanticSearchService (the shared FAISS   *)
(* index and document store), LLMService (answer generation with retry on  *)
(* rate limiting) and the /hackrx/run handler run_submission.              *)
(*                                                                         *)
(* Text is a sequence of one-character strings.  The handler is an asyncio *)
(* coroutine: it runs without interruption between two suspension points   *)
(* (the awaited model call and the awaited sleep), which the variable      *)
(* running models: it names the task that holds the event loop.            *)
(***************************************************************************)
EXTENDS Integers, Sequences, FiniteSets, TLC

----------------------------------------------------------------------------
(* Bounds of the model and constants of the program.                       *)

\* The longest questions list of a request.
MaxQuestions == 2

\* The longest questions list of a request that arrives while another
\* request is in progress.
MaxOverlapQuestions == 0

\* The most segments of a text given to the chunker on its own.
MaxSegments == 3

\* The largest batch size embed_and_index is run with on its own.
MaxBatchSize == 9

\* The random jitter of a backoff wait is drawn from JitterSteps values
\* spread over [0, 1) second; a second is JitterSteps ticks.
JitterSteps == 2

\* DocumentProcessor.__init__: self.chunk_size
chunk_size == 256

\* sentence_aware_chunking: len(s.strip()) > 10
MIN_SENTENCE_CHARS == 10

\* embed_and_index: batch_size: int = 8
batch_size == 8

\* _process_one: search(query, top_k=8)
top_k == 8

\* generate_answer: for attempt in range(3)
MAX_ATTEMPTS == 3

\* generate_answer: attempt < 2
LAST_RETRY_ATTEMPT == 2

----------------------------------------------------------------------------
(* Text helpers: str.replace, str.strip, str.split, str.join, `in`.        *)

IsSpace(c) == c \in {" ", "\n", "\t"}

\* The function f on 1..n as a sequence (a tuple of n elements).
AsSeq(f, n) == SubSeq(f, 1, n)

\* text.replace('\n', ' ')
ReplaceNewlines(s) ==
    AsSeq([i \in 1..Len(s) |-> IF s[i] = "\n" THEN " " ELSE s[i]], Len(s))

\* s.strip()
Strip(s) ==
    LET keep == {i \in 1..Len(s) : ~IsSpace(s[i])}
    IN  IF keep = {} THEN <<>>
        ELSE LET lo == CHOOSE i \in keep : \A j \in keep : i <= j
                 hi == CHOOSE i \in keep : \A j \in keep : j <= i
             IN  SubSeq(s, lo, hi)

\* The start positions of the words of s (maximal runs of non-space).
WordStarts(s) ==
    {i \in 1..Len(s) : ~IsSpace(s[i]) /\ (i = 1 \/ IsSpace(s[i - 1]))}

\* len(s.split())
WordCount(s) == Cardinality(WordStarts(s))

\* The elements of a finite set of integers in increasing order.
RECURSIVE SortedSeq(_)
SortedSeq(S) ==
    IF S = {} THEN <<>>
    ELSE LET m == CHOOSE x \in S : \A y \in S : x <= y
         IN  <<m>> \o SortedSeq(S \ {m})

\* The last position of the run of spaces that starts at position i.
SpaceRunEnd(s, i) ==
    CHOOSE j \in i..Len(s) :
        /\ \A k \in i..j : IsSpace(s[k])
        /\ (j = Len(s) \/ ~IsSpace(s[j + 1]))

\* The last position of the word that starts at position i.
WordEnd(s, i) ==
    CHOOSE j \in i..Len(s) :
        /\ \A k \in i..j : ~IsSpace(s[k])
        /\ (j = Len(s) \/ IsSpace(s[j + 1]))

\* s.split(): the words of s in order.
SplitWords(s) ==
    LET starts == SortedSeq(WordStarts(s))
    IN  AsSeq([n \in 1..Len(starts) |-> SubSeq(s, starts[n], WordEnd(s, starts[n]))],
              Len(starts))

\* sep.join(parts)
RECURSIVE Join(_, _)
Join(parts, sep) ==
    IF parts = <<>> THEN <<>>
    ELSE IF Len(parts) = 1 THEN parts[1]
    ELSE parts[1] \o sep \o Join(Tail(parts), sep)

\* needle in s
Contains(s, needle) ==
    \E i \in 1..(Len(s) - Len(needle) + 1) :
        SubSeq(s, i, i + Len(needle) - 1) = needle

----------------------------------------------------------------------------
(* DocumentProcessor.sentence_aware_chunking                               *)

SentenceEnd == {".", "!", "?"}

\* re.split(r'(?<=[.!?])\s+', s): s is cut at every run of spaces that
\* directly follows a sentence-ending character; the run is dropped.
SplitSentences(s) ==
    LET cuts   == {i \in 2..Len(s) : IsSpace(s[i]) /\ s[i - 1] \in SentenceEnd}
        starts == SortedSeq(cuts)
        n      == Len(starts)
        from(k) == IF k = 1 THEN 1 ELSE SpaceRunEnd(s, starts[k - 1]) + 1
        to(k)   == IF k = n + 1 THEN Len(s) ELSE starts[k] - 1
    IN  AsSeq([k \in 1..(n + 1) |-> SubSeq(s, from(k), to(k))], n + 1)

\* [s.strip() for s in sentences if len(s.strip()) > 10]
RECURSIVE RetainedSentences(_)
RetainedSentences(segments) ==
    IF segments = <<>> THEN <<>>
    ELSE LET s == Strip(Head(segments))
         IN  (IF Len(s) > MIN_SENTENCE_CHARS THEN <<s>> ELSE <<>>)
                 \o RetainedSentences(Tail(segments))

\* Variant: only the first sentence of the chunk is kept.
DocumentChunkFirstSentence(sentences, chunk_id, metadata) ==
    [content |-> IF sentences = <<>> THEN <<>> ELSE Head(sentences),
     metadata |-> [chunk_id |-> chunk_id, source |-> metadata.source]]

\* DocumentChunk(content=" ".join(current_chunk_sentences),
\*               metadata={"chunk_id": len(chunks), **metadata})
DocumentChunk(sentences, chunk_id, metadata) ==
    [content |-> Join(sentences, <<" ">>),
     metadata |-> [chunk_id |-> chunk_id, source |-> metadata.source]]

\* Variant of the packing loop: the budget test looks at the length of the
\* chunk in progress only, not at the sentence to add.
RECURSIVE PackSentencesLoose(_, _, _, _, _)
PackSentencesLoose(sentences, chunks, current, length, metadata) ==
    IF sentences = <<>>
    THEN IF current # <<>>
         THEN Append(chunks, DocumentChunk(current, Len(chunks), metadata))
         ELSE chunks
    ELSE LET sentence == Head(sentences)
             sentence_length == WordCount(sentence)
         IN  IF length <= chunk_size
             THEN PackSentencesLoose(Tail(sentences), chunks,
                                     Append(current, sentence),
                                     length + sentence_length, metadata)
             ELSE PackSentencesLoose(Tail(sentences),
                                     Append(chunks,
                                            DocumentChunk(current, Len(chunks), metadata)),
                                     <<sentence>>, sentence_length, metadata)

\* The packing loop: current is current_chunk_sentences, length is
\* current_chunk_length; the in-progress chunk is emitted after the loop
\* when it holds a sentence.
RECURSIVE PackSentences(_, _, _, _, _)
PackSentences(sentences, chunks, current, length, metadata) ==
    IF sentences = <<>>
    THEN IF current # <<>>
         THEN Append(chunks, DocumentChunk(current, Len(chunks), metadata))
         ELSE chunks
    ELSE LET sentence == Head(sentences)
             sentence_length == WordCount(sentence)
         IN  IF length + sentence_length <= chunk_size
             THEN PackSentences(Tail(sentences), chunks,
                                Append(current, sentence),
                                length + sentence_length, metadata)
             ELSE PackSentences(Tail(sentences),
                                Append(chunks,
                                       DocumentChunk(current, Len(chunks), metadata)),
                                <<sentence>>, sentence_length, metadata)

sentence_aware_chunking(text, metadata) ==
    PackSentences(RetainedSentences(SplitSentences(ReplaceNewlines(text))),
                  <<>>, <<>>, 0, metadata)

----------------------------------------------------------------------------
(* The documents a request can name, and what the download and extraction  *)
(* collaborators return for them.                                          *)

\* A document whose only segment is too short to be kept: no chunk.
TEXT_SHORT ==
    <<"H","i"," ","t","h","e","r","e",".","\n">>

\* Two sentences that fit one chunk.
TEXT_WARRANTY ==
    <<"T","h","e"," ","w","a","r","r","a","n","t","y"," ","l","a","s","t","s",
      " ","2"," ","y","e","a","r","s","."," ","R","e","t","u","r","n","s"," ",
      "a","r","e","\n","a","c","c","e","p","t","e","d"," ","w","i","t","h",
      "i","n"," ","3","0"," ","d","a","y","s",".">>

\* A sentence of 129 words: 128 words "a" and a last word of n letters "b"
\* and a full stop.  Two such sentences exceed the budget of one chunk.
LongSentence(n) ==
    AsSeq([i \in 1..(256 + n + 1) |->
              IF i <= 256 THEN (IF i % 2 = 1 THEN "a" ELSE " ")
              ELSE IF i <= 256 + n THEN "b" ELSE "."], 256 + n + 1)

\* Nine long sentences, one per line: nine chunks, so two batches.
TEXT_LONG ==
    Join(AsSeq([n \in 1..9 |-> LongSentence(n)], 9), <<"\n">>)

\* request.documents: the URL, with the extension of its path.
Documents ==
    {[url |-> "short", ext |-> "pdf"],
     [url |-> "warranty", ext |-> "docx"],
     [url |-> "long", ext |-> "other"]}

\* get_file_type
get_file_type(document) ==
    IF document.ext = "pdf" THEN "pdf"
    ELSE IF document.ext = "docx" THEN "docx"
    ELSE "pdf"

\* The text that extraction yields for a document when it succeeds.
ExtractedText(document) ==
    CASE document.url = "short" -> TEXT_SHORT
      [] document.url = "warranty" -> TEXT_WARRANTY
      [] document.url = "long" -> TEXT_LONG

----------------------------------------------------------------------------
(* The embedding model and the FAISS index.                                *)

\* Variant: SentenceTransformer(...) is constructed at every call.
get_embedding_model_eager(model, constructed) ==
    IF constructed THEN (IF model = "None" THEN "loaded" ELSE "reloaded")
    ELSE model

\* get_embedding_model: the global EMBEDDING_MODEL after the call.  The
\* model is constructed only when the global is None; `constructed` tells
\* whether SentenceTransformer(...) then returns or raises.
get_embedding_model(model, constructed) ==
    IF model = "None" THEN (IF constructed THEN "loaded" ELSE "None")
    ELSE model

\* model.encode of one text: an opaque, deterministic vector of the text.
\* Texts of different lengths below 256 get different vectors.
Embed(content) == <<Len(content) % 16, Len(content) \div 16>>

\* model.encode(texts, normalize_embeddings=True)
Encode(texts) == AsSeq([n \in 1..Len(texts) |-> Embed(texts[n])], Len(texts))

\* IndexFlatL2: the squared Euclidean distance.
L2Distance(u, v) ==
    (u[1] - v[1]) * (u[1] - v[1]) + (u[2] - v[2]) * (u[2] - v[2])

\* The positions in `left` (0-based) nearest first, the lower position first
\* among equals.
RECURSIVE NearestFirst(_, _, _)
NearestFirst(vectors, q, left) ==
    IF left = {} THEN <<>>
    ELSE LET best == CHOOSE n \in left : \A m \in left :
                        \/ L2Distance(vectors[n + 1], q) < L2Distance(vectors[m + 1], q)
                        \/ /\ L2Distance(vectors[n + 1], q) = L2Distance(vectors[m + 1], q)
                           /\ n <= m
         IN  <<best>> \o NearestFirst(vectors, q, left \ {best})

\* faiss_index.search(q, k): k (distance, position) pairs, nearest first;
\* position -1 fills the places for which the index has no vector.
IndexSearch(vectors, q, k) ==
    LET order == NearestFirst(vectors, q, 0..(Len(vectors) - 1))
    IN  AsSeq([n \in 1..k |->
                  IF n <= Len(order)
                  THEN [dist |-> L2Distance(vectors[order[n] + 1], q), idx |-> order[n]]
                  ELSE [dist |-> -1, idx |-> -1]], k)

----------------------------------------------------------------------------
(* SemanticSearchService                                                   *)

\* self.faiss_index.add(embeddings) and self.document_store.extend(...) of
\* one batch, applied to the pair [index, store].
IndexBatch(state, batch_chunks) ==
    LET batch_texts == AsSeq([n \in 1..Len(batch_chunks) |-> batch_chunks[n].content],
                             Len(batch_chunks))
        entries == AsSeq([n \in 1..Len(batch_chunks) |->
                             [content |-> batch_chunks[n].content,
                              metadata |-> batch_chunks[n].metadata]],
                         Len(batch_chunks))
    IN  [index |-> state.index \o Encode(batch_texts),
         store |-> state.store \o entries]

\* Variant: a last batch shorter than batch_size is not taken.
BatchOfFullOnly(chunks, i, size) ==
    IF i + size <= Len(chunks) THEN SubSeq(chunks, i + 1, i + size) ELSE <<>>

\* chunks[i:i + batch_size] (i is 0-based)
BatchOf(chunks, i, size) ==
    SubSeq(chunks, i + 1, IF i + size <= Len(chunks) THEN i + size ELSE Len(chunks))

\* The ClauseMatch list that search builds from the pairs the index returns,
\* dropping position -1.
RECURSIVE ClauseMatches(_, _)
ClauseMatches(found, store) ==
    IF found = <<>> THEN <<>>
    ELSE (IF Head(found).idx # -1
          THEN <<[content |-> store[Head(found).idx + 1].content,
                  similarity_score |-> Head(found).dist]>>
          ELSE <<>>) \o ClauseMatches(Tail(found), store)

Min(a, b) == IF a <= b THEN a ELSE b

\* Variant: top_k is ignored and the whole index is returned.
searchWholeIndex(index, store, query, k) ==
    LET found == IndexSearch(index, Embed(query), Len(index))
    IN  [raised |-> \E n \in 1..Len(found) : found[n].idx >= Len(store),
         matches |-> IF \E n \in 1..Len(found) : found[n].idx >= Len(store)
                     THEN <<>> ELSE ClauseMatches(found, store)]

\* search on a non-empty index, the query embedded: the result, or IndexError
\* when a position has no entry in the document store.
search(index, store, query, k) ==
    LET found == IndexSearch(index, Embed(query), Min(k, Len(index)))
    IN  IF \E n \in 1..Len(found) : found[n].idx >= Len(store)
        THEN [raised |-> TRUE, matches |-> <<>>]
        ELSE [raised |-> FALSE, matches |-> ClauseMatches(found, store)]

----------------------------------------------------------------------------
(* LLMService                                                              *)

NO_MATCH_ANSWER ==
    <<"T","h","e"," ","p","r","o","v","i","d","e","d"," ","d","o","c","u","m",
      "e","n","t"," ","d","o","e","s"," ","n","o","t"," ","c","o","n","t","a",
      "i","n"," ","i","n","f","o","r","m","a","t","i","o","n"," ","r","e","l",
      "e","v","a","n","t"," ","t","o"," ","t","h","i","s"," ","q","u","e","s",
      "t","i","o","n",".">>

ERROR_ANSWER ==
    <<"A","n"," ","e","r","r","o","r"," ","o","c","c","u","r","r","e","d"," ",
      "w","h","i","l","e"," ","g","e","n","e","r","a","t","i","n","g"," ","t",
      "h","e"," ","a","n","s","w","e","r",".">>

RETRY_ANSWER ==
    <<"F","a","i","l","e","d"," ","t","o"," ","g","e","n","e","r","a","t","e",
      " ","a","n"," ","a","n","s","w","e","r"," ","a","f","t","e","r"," ","m",
      "u","l","t","i","p","l","e"," ","r","e","t","r","i","e","s",".">>

\* The separator of the chunks in the prompt.
CONTEXT_SEPARATOR == <<"\n","\n","-","-","-","\n","\n">>

\* create_high_accuracy_prompt: the two parts of the template that vary.
create_high_accuracy_prompt(query, relevant_chunks) ==
    [source_text |-> Join(AsSeq([n \in 1..Len(relevant_chunks) |->
                                    relevant_chunks[n].content],
                                Len(relevant_chunks)), CONTEXT_SEPARATOR),
     question |-> query]

\* ' '.join(response.text.strip().replace('\n', ' ').split())
NormalizeAnswer(response_text) ==
    Join(SplitWords(ReplaceNewlines(Strip(response_text))), <<" ">>)

\* "429" in str(e)
IsRateLimit(message) == Contains(message, <<"4","2","9">>)

\* Variant: a linear backoff, 2 * attempt.
BackoffWaitLinear(attempt, jitter) == 2 * attempt * JitterSteps + jitter

\* wait_time = (2 ** attempt) + np.random.uniform(0, 1), in ticks
BackoffWait(attempt, jitter) == (2 ^ attempt) * JitterSteps + jitter

\* The messages of the exceptions the model call raises.
ErrorMessages ==
    {<<"4","2","9"," ","q","u","o","t","a">>, <<"5","0","0"," ","d","o","w","n">>}

\* What the awaited model call can end in for a prompt: a response whose
\* text names the question, or an exception.
ModelOutcomes(prompt) ==
    {[ok |-> TRUE,
      text |-> <<" ","O","n","\n">> \o prompt.question \o <<":"," "," ","y","e","s",".","\n">>]}
    \cup {[ok |-> FALSE, text |-> m] : m \in ErrorMessages}

----------------------------------------------------------------------------
(* The state: the module globals and the request handlers in progress.     *)

VARIABLES
    EMBEDDING_MODEL,   \* "None" or "loaded"
    FAISS_INDEX,       \* the vectors of the index, in position order
    DOCUMENT_STORE,    \* the {content, metadata} entries, in position order
    running,           \* the handler that holds the event loop, or "none"
    task               \* per handler: its position and its local variables

vars == <<EMBEDDING_MODEL, FAISS_INDEX, DOCUMENT_STORE, running, task>>

\* Two handlers can be in progress at once; a finished one takes the next
\* request.
Handlers == {"A", "B"}

\* questions[n]
Question(n) == AsSeq([k \in 1..(n + 1) |-> IF k <= n THEN "q" ELSE "?"], n + 1)

\* The questions lists of the requests: the first n questions.
QuestionLists ==
    {AsSeq([k \in 1..n |-> Question(k)], n) : n \in 0..MaxQuestions}

\* A handler with no request.  batch_size is the parameter of
\* embed_and_index, which run_submission leaves at its default; batch_i is
\* the loop variable of
\* embed_and_index, query_i that of process_all_queries, exception the
\* exception that run_submission catches.  The fields after `answer`
\* record, for the generate_answer call in progress, the model calls made,
\* the sleeps made and what each model call ended in.
IdleTask ==
    [pc |-> "idle",
     documents |-> [url |-> "none", ext |-> "none"],
     questions |-> <<>>,
     text |-> <<>>,
     chunks |-> <<>>,
     batch_size |-> batch_size,
     batch_i |-> 0,
     query_i |-> 0,
     answers |-> <<>>,
     relevant_chunks |-> <<>>,
     attempt |-> 0,
     wait_time |-> 0,
     answer |-> <<>>,
     model_calls |-> 0,
     sleeps |-> 0,
     outcomes |-> <<>>,
     exception |-> "none"]

Init ==
    /\ EMBEDDING_MODEL = "None"
    /\ FAISS_INDEX = <<>>
    /\ DOCUMENT_STORE = <<>>
    /\ running = "none"
    /\ task = [r \in Handlers |-> IdleTask]

Globals == <<EMBEDDING_MODEL, FAISS_INDEX, DOCUMENT_STORE>>

----------------------------------------------------------------------------
(* run_submission, up to the answering phase.                              *)

\* The request arrives and the handler starts: it runs when no other
\* handler holds the event loop.  The questions list of a request that
\* joins a request in progress is bounded by MaxOverlapQuestions.
StartRequest(r) ==
    /\ running = "none"
    /\ task[r].pc = "idle"
    /\ \E d \in Documents, qs \in QuestionLists :
          /\ (\E h \in Handlers : task[h].pc # "idle") =>
                 Len(qs) <= MaxOverlapQuestions
          /\ task' = [task EXCEPT ![r] =
                         [IdleTask EXCEPT !.pc = "download",
                                          !.documents = d, !.questions = qs]]
    /\ running' = r
    /\ UNCHANGED Globals

\* download_document: the bytes, or an exception.
Download(r) ==
    /\ running = r
    /\ task[r].pc = "download"
    /\ \E ok \in BOOLEAN :
          task' = [task EXCEPT ![r].pc = IF ok THEN "extract" ELSE "error",
                               ![r].exception = IF ok THEN "none" ELSE "download"]
    /\ UNCHANGED <<Globals, running>>

\* get_file_type and extract_text: the text, or an exception.
Extract(r) ==
    /\ running = r
    /\ task[r].pc = "extract"
    /\ \E ok \in BOOLEAN :
          task' = [task EXCEPT
                      ![r].pc = IF ok /\ get_file_type(task[r].documents) \in {"pdf", "docx"}
                                THEN "chunk" ELSE "error",
                      ![r].text = IF ok THEN ExtractedText(task[r].documents) ELSE <<>>,
                      ![r].exception = IF ok THEN "none" ELSE "extract"]
    /\ UNCHANGED <<Globals, running>>

\* chunks = sentence_aware_chunking(text, {"source": request.documents});
\* text is not read again.
Chunk(r) ==
    /\ running = r
    /\ task[r].pc = "chunk"
    /\ task' = [task EXCEPT
                   ![r].pc = "embed_and_index",
                   ![r].text = <<>>,
                   ![r].chunks = sentence_aware_chunking(
                                    task[r].text, [source |-> task[r].documents.url])]
    /\ UNCHANGED <<Globals, running>>

----------------------------------------------------------------------------
(* SemanticSearchService.embed_and_index                                   *)

\* Variant: no reset at all, the new chunks are merged with the old ones.
ResetNothing(state, chunks) == state

\* Variant: the index is reset and document_store.clear() is forgotten.
ResetIndexOnly(state, chunks) ==
    IF chunks = <<>> THEN state ELSE [index |-> <<>>, store |-> state.store]

\* The first two lines of embed_and_index, applied to the pair
\* [index, store]: nothing for an empty chunk list, else reset and clear.
ResetForIndexing(state, chunks) ==
    IF chunks = <<>> THEN state ELSE [index |-> <<>>, store |-> <<>>]

\* embed_and_index up to the batch loop: the early return, the reset, and
\* get_embedding_model, which loads the model when it is not loaded yet and
\* raises when loading fails.
EmbedAndIndex(r) ==
    /\ running = r
    /\ task[r].pc = "embed_and_index"
    /\ LET state == ResetForIndexing([index |-> FAISS_INDEX, store |-> DOCUMENT_STORE],
                                     task[r].chunks)
       IN  /\ FAISS_INDEX' = state.index
           /\ DOCUMENT_STORE' = state.store
    /\ IF task[r].chunks = <<>>
       THEN /\ task' = [task EXCEPT ![r].pc = "process_all_queries"]
            /\ UNCHANGED EMBEDDING_MODEL
       ELSE \E loaded \in BOOLEAN :
               /\ loaded \/ EMBEDDING_MODEL = "None"
               /\ EMBEDDING_MODEL' = get_embedding_model(EMBEDDING_MODEL, loaded)
               /\ task' = [task EXCEPT
                         ![r].pc = IF loaded THEN "batch" ELSE "error",
                         ![r].exception = IF loaded THEN "none" ELSE "load",
                         ![r].batch_i = 0]
    /\ UNCHANGED running

\* One round of the batch loop: model.encode raises, or the batch is added
\* to the index and to the document store.
Batch(r) ==
    /\ running = r
    /\ task[r].pc = "batch"
    /\ \E encoded \in BOOLEAN :
          IF encoded
          THEN LET state == IndexBatch([index |-> FAISS_INDEX, store |-> DOCUMENT_STORE],
                                       BatchOf(task[r].chunks, task[r].batch_i,
                                               task[r].batch_size))
               IN  /\ FAISS_INDEX' = state.index
                   /\ DOCUMENT_STORE' = state.store
                   /\ task' = [task EXCEPT
                          ![r].batch_i = task[r].batch_i + task[r].batch_size,
                          ![r].pc = IF task[r].batch_i + task[r].batch_size < Len(task[r].chunks)
                                    THEN "batch" ELSE "process_all_queries"]
          ELSE /\ task' = [task EXCEPT ![r].pc = "error",
                                       ![r].exception = "encode"]
               /\ UNCHANGED <<FAISS_INDEX, DOCUMENT_STORE>>
    /\ UNCHANGED <<EMBEDDING_MODEL, running>>

----------------------------------------------------------------------------
(* LLMService.process_all_queries, _process_one, generate_answer           *)

\* The loop head of process_all_queries and the search of _process_one.
\* search returns [] for an empty index; else it gets the embedding model,
\* embeds the query (model.encode may raise) and searches the index.
ProcessQuery(r) ==
    /\ running = r
    /\ task[r].pc = "process_all_queries"
    /\ IF task[r].query_i >= Len(task[r].questions)
       THEN /\ task' = [task EXCEPT ![r].pc = "respond"]
            /\ UNCHANGED EMBEDDING_MODEL
       ELSE IF Len(FAISS_INDEX) = 0
       THEN /\ task' = [task EXCEPT ![r].pc = "generate_answer",
                                    ![r].relevant_chunks = <<>>]
            /\ UNCHANGED EMBEDDING_MODEL
       ELSE \E loaded \in BOOLEAN, encoded \in BOOLEAN :
               LET query  == task[r].questions[task[r].query_i + 1]
                   result == search(FAISS_INDEX, DOCUMENT_STORE, query, top_k)
               IN  /\ loaded \/ EMBEDDING_MODEL = "None"
                   /\ loaded \/ encoded
                   /\ EMBEDDING_MODEL' = get_embedding_model(EMBEDDING_MODEL, loaded)
                   /\ task' = [task EXCEPT
                          ![r].pc = IF loaded /\ encoded /\ ~result.raised
                                    THEN "generate_answer" ELSE "error",
                          ![r].exception = IF ~loaded THEN "search load"
                                           ELSE IF ~encoded THEN "search encode"
                                           ELSE IF result.raised THEN "search index"
                                           ELSE "none",
                          ![r].relevant_chunks =
                                    IF loaded /\ encoded THEN result.matches ELSE <<>>]
    /\ UNCHANGED <<FAISS_INDEX, DOCUMENT_STORE, running>>

\* Variant: the test for an empty match list is missing.
NoMatchNever(relevant_chunks) == FALSE

\* if not relevant_chunks
NoMatch(relevant_chunks) == relevant_chunks = <<>>

\* The prompt of the generate_answer call in progress: it is built once,
\* from the arguments of the call, and sent on every attempt.
Prompt(r) ==
    create_high_accuracy_prompt(task[r].questions[task[r].query_i + 1],
                                task[r].relevant_chunks)

\* generate_answer up to its first await: the fixed answer for no match,
\* else the prompt and the first model call, which suspends the handler.
GenerateAnswer(r) ==
    /\ running = r
    /\ task[r].pc = "generate_answer"
    /\ IF NoMatch(task[r].relevant_chunks)
       THEN /\ task' = [task EXCEPT ![r].pc = "append",
                                    ![r].answer = NO_MATCH_ANSWER]
            /\ UNCHANGED running
       ELSE /\ task' = [task EXCEPT ![r].pc = "model_call",
                                    ![r].attempt = 0,
                                    ![r].model_calls = 1]
            /\ running' = "none"
    /\ UNCHANGED Globals

\* Variant: the attempt bound of the retry is missing.
RetriesAlways(message, attempt) == IsRateLimit(message)

\* Variant: every exception is retried while attempts are left.
RetriesAnyError(message, attempt) == attempt < LAST_RETRY_ATTEMPT

\* Whether the except clause sleeps and retries.
Retries(message, attempt) == IsRateLimit(message) /\ attempt < LAST_RETRY_ATTEMPT

\* What a model call ended in.
OutcomeKind(outcome) ==
    IF outcome.ok THEN "response"
    ELSE IF IsRateLimit(outcome.text) THEN "rate limit" ELSE "error"

\* The awaited model call ends and the handler resumes: the normalized
\* text is returned, or the exception is caught and the handler sleeps
\* (suspended again) or returns the error sentence.
ModelCallReturns(r) ==
    /\ running = "none"
    /\ task[r].pc = "model_call"
    /\ \E outcome \in ModelOutcomes(Prompt(r)), jitter \in 0..(JitterSteps - 1) :
          IF outcome.ok
          THEN /\ jitter = 0
               /\ task' = [task EXCEPT
                      ![r].pc = "append",
                      ![r].answer = NormalizeAnswer(outcome.text),
                      ![r].outcomes = Append(task[r].outcomes, "response")]
               /\ running' = r
          ELSE IF Retries(outcome.text, task[r].attempt)
          THEN /\ task' = [task EXCEPT
                      ![r].pc = "sleep",
                      ![r].wait_time = BackoffWait(task[r].attempt, jitter),
                      ![r].sleeps = task[r].sleeps + 1,
                      ![r].outcomes = Append(task[r].outcomes, OutcomeKind(outcome))]
               /\ running' = "none"
          ELSE /\ jitter = 0
               /\ task' = [task EXCEPT
                      ![r].pc = "append",
                      ![r].answer = ERROR_ANSWER,
                      ![r].outcomes = Append(task[r].outcomes, OutcomeKind(outcome))]
               /\ running' = r
    /\ UNCHANGED Globals

\* The sleep ends and the loop goes to the next attempt: the next model
\* call, or the last return of generate_answer when no attempt is left.
SleepReturns(r) ==
    /\ running = "none"
    /\ task[r].pc = "sleep"
    /\ IF task[r].attempt + 1 < MAX_ATTEMPTS
       THEN /\ task' = [task EXCEPT ![r].pc = "model_call",
                                    ![r].attempt = task[r].attempt + 1,
                                    ![r].wait_time = 0,
                                    ![r].model_calls = task[r].model_calls + 1]
            /\ running' = "none"
       ELSE /\ task' = [task EXCEPT ![r].pc = "append",
                                    ![r].wait_time = 0,
                                    ![r].answer = RETRY_ANSWER]
            /\ running' = r
    /\ UNCHANGED Globals

\* Variant: the answer is put in front of the list.
AppendAnswerFront(answers, answer) == <<answer>> \o answers

\* answers.append(answer)
AppendAnswer(answers, answer) == Append(answers, answer)

\* _process_one returns and the answer is appended; the locals of the
\* finished generate_answer call are gone.
AppendStep(r) ==
    /\ running = r
    /\ task[r].pc = "append"
    /\ task' = [task EXCEPT
                   ![r].pc = "process_all_queries",
                   ![r].answers = AppendAnswer(task[r].answers, task[r].answer),
                   ![r].query_i = task[r].query_i + 1,
                   ![r].relevant_chunks = <<>>,
                   ![r].attempt = 0,
                   ![r].answer = <<>>,
                   ![r].model_calls = 0,
                   ![r].sleeps = 0,
                   ![r].outcomes = <<>>]
    /\ UNCHANGED <<Globals, running>>

----------------------------------------------------------------------------
(* The end of run_submission.                                              *)

\* QueryResponse(answers=answers): the body of the 200 response.
QueryResponse(answers) == [status_code |-> 200, answers |-> answers]

\* Variant: the error response also carries the answers collected so far.
ErrorResponseWithAnswers(answers, exception) ==
    [status_code |-> 500, detail |-> exception, answers |-> answers]

\* HTTPException(status_code=500, detail=...), raised in the except clause
\* of run_submission, where `answers` is not in scope.
ErrorResponse(answers, exception) ==
    [status_code |-> 500, detail |-> exception]

\* What the handler answers the client with, at its return or in its
\* except clause.
Response(r) ==
    IF task[r].pc = "respond"
    THEN QueryResponse(task[r].answers)
    ELSE ErrorResponse(task[r].answers, task[r].exception)

\* return QueryResponse(answers=answers)
Respond(r) ==
    /\ running = r
    /\ task[r].pc = "respond"
    /\ task' = [task EXCEPT ![r] = IdleTask]
    /\ running' = "none"
    /\ UNCHANGED Globals

\* except Exception: raise HTTPException(status_code=500, ...)
Fail(r) ==
    /\ running = r
    /\ task[r].pc = "error"
    /\ task' = [task EXCEPT ![r] = IdleTask]
    /\ running' = "none"
    /\ UNCHANGED Globals

----------------------------------------------------------------------------

Step(r) ==
    \/ Download(r)
    \/ Extract(r)
    \/ Chunk(r)
    \/ EmbedAndIndex(r)
    \/ Batch(r)
    \/ ProcessQuery(r)
    \/ GenerateAnswer(r)
    \/ ModelCallReturns(r)
    \/ SleepReturns(r)
    \/ AppendStep(r)
    \/ Respond(r)
    \/ Fail(r)

\* Requests may overlap: a request starts whenever the event loop is free.
Next == \E r \in Handlers : StartRequest(r) \/ Step(r)

Spec == Init /\ [][Next]_vars

\* Requests served strictly one at a time: a request starts only when no
\* other is in progress.
StartAlone(r) ==
    /\ \A h \in Handlers : task[h].pc = "idle"
    /\ StartRequest(r)

SeqNext == \E r \in Handlers : StartAlone(r) \/ Step(r)

SeqSpec == Init /\ [][SeqNext]_vars

\* Every awaited model call ends (in a response or an exception), every
\* sleep ends, and the event loop then resumes the handler.
FairSeqSpec ==
    SeqSpec /\ \A r \in Handlers :
                  WF_vars(ModelCallReturns(r)) /\ WF_vars(SleepReturns(r))

----------------------------------------------------------------------------
(* sentence_aware_chunking on its own: the texts extract_text can return   *)
(* are arbitrary, so the chunker is run on texts assembled from segments   *)
(* around its two thresholds (10 characters, chunk_size words).            *)

\* A sentence of `words` words: words - 1 words "a", a last word of n
\* letters "b", and a full stop.
WordySentence(words, n) ==
    AsSeq([i \in 1..(2 * (words - 1) + n + 1) |->
              IF i <= 2 * (words - 1) THEN (IF i % 2 = 1 THEN "a" ELSE " ")
              ELSE IF i <= 2 * (words - 1) + n THEN "b" ELSE "."],
          2 * (words - 1) + n + 1)

\* The segments: 3, 10 and 11 characters; 129 words (two exceed the budget
\* of a chunk) and 257 words (one exceeds it).
Segments ==
    {<<"H","i",".">>,
     <<"T","e","n"," ","c","h","a","r","s",".">>,
     <<"E","l","e","v","e","n"," ","c","h","r","!">>,
     WordySentence(129, 2),
     WordySentence(chunk_size + 1, 3)}

\* The sequences of 1..MaxSegments segments.
RECURSIVE SegmentLists(_)
SegmentLists(n) ==
    IF n = 0 THEN {<<>>}
    ELSE LET shorter == SegmentLists(n - 1)
         IN  shorter \cup {Append(l, g) : l \in {x \in shorter : Len(x) = n - 1},
                                          g \in Segments}

\* The texts: the segments separated by one space, or each on its own
\* indented line.
Texts ==
    {Join(l, <<" ">>) : l \in SegmentLists(MaxSegments) \ {<<>>}}
    \cup {<<"\n">> \o Join(l, <<"\n", " ">>) \o <<"\n">> :
             l \in SegmentLists(MaxSegments) \ {<<>>}}

\* The handler is about to chunk a text that extraction returned.
ChunkerInit ==
    /\ EMBEDDING_MODEL = "None"
    /\ FAISS_INDEX = <<>>
    /\ DOCUMENT_STORE = <<>>
    /\ running = "A"
    /\ \E text \in Texts :
          task = [r \in Handlers |->
                     IF r = "A"
                     THEN [IdleTask EXCEPT !.pc = "chunk",
                                           !.documents = [url |-> "text", ext |-> "pdf"],
                                           !.text = text]
                     ELSE IdleTask]

ChunkerNext == \E r \in Handlers : Chunk(r)

ChunkerSpec == ChunkerInit /\ [][ChunkerNext]_vars

----------------------------------------------------------------------------
(* embed_and_index on its own, with any batch size.                        *)

\* The chunk lists of the documents.
CHUNKS_WARRANTY == sentence_aware_chunking(TEXT_WARRANTY, [source |-> "warranty"])

CHUNKS_LONG == sentence_aware_chunking(TEXT_LONG, [source |-> "long"])

\* The chunk lists embed_and_index is given: the chunks of a document, or
\* of a document that ends after an earlier sentence of it.
ChunkLists ==
    {SubSeq(CHUNKS_LONG, 1, n) : n \in 1..Len(CHUNKS_LONG)} \cup {CHUNKS_WARRANTY}

\* The handler is about to call embed_and_index(chunks, batch_size); the
\* index is empty or holds the chunk of an earlier document, in which case
\* the embedding model is loaded.
IndexerInit ==
    /\ \E earlier \in {<<>>, CHUNKS_WARRANTY} :
          LET state == IndexBatch([index |-> <<>>, store |-> <<>>], earlier)
          IN  /\ FAISS_INDEX = state.index
              /\ DOCUMENT_STORE = state.store
              /\ EMBEDDING_MODEL \in (IF earlier = <<>> THEN {"None", "loaded"}
                                                         ELSE {"loaded"})
    /\ running = "A"
    /\ \E chunks \in ChunkLists, size \in 1..MaxBatchSize :
          task = [r \in Handlers |->
                     IF r = "A"
                     THEN [IdleTask EXCEPT !.pc = "embed_and_index",
                                           !.documents = [url |-> chunks[1].metadata.source,
                                                          ext |-> "pdf"],
                                           !.chunks = chunks,
                                           !.batch_size = size]
                     ELSE IdleTask]

IndexerNext == \E r \in Handlers : EmbedAndIndex(r) \/ Batch(r)

IndexerSpec == IndexerInit /\ [][IndexerNext]_vars

----------------------------------------------------------------------------
(* Properties.                                                             *)

\* The contents of a chunk list.
ChunkContents(chunks) == {chunks[n].content : n \in 1..Len(chunks)}

\* The document-store entries of a chunk list, in order.
StoreOf(chunks) ==
    AsSeq([n \in 1..Len(chunks) |->
              [content |-> chunks[n].content, metadata |-> chunks[n].metadata]],
          Len(chunks))

\* The contents of a match list.
MatchContents(matches) == {matches[n].content : n \in 1..Len(matches)}

\* Every question of the model.
AllQuestions == {Question(n) : n \in 1..MaxQuestions}

\* A handler that has just come back from embed_and_index.
JustIndexed(r) ==
    /\ running = r
    /\ task[r].pc = "process_all_queries"
    /\ task[r].query_i = 0

\* A handler suspended in generate_answer.
Suspended(r) == task[r].pc \in {"model_call", "sleep"}

\* The answers generate_answer can return for a question: the fixed
\* sentences and the normalized texts of the model's responses to it.
ResultsFor(question) ==
    {NO_MATCH_ANSWER, ERROR_ANSWER}
    \cup {NormalizeAnswer(o.text) :
            o \in {x \in ModelOutcomes(create_high_accuracy_prompt(question, <<>>)) : x.ok}}

\* C1: a request that reaches its return holds one answer per question, and
\* answers[i] is an answer generated for questions[i], whatever each
\* question ended in; while the loop runs the answers are those of the
\* questions processed so far, in order.
C1_AnswersMatchQuestions ==
    \A r \in Handlers :
        /\ Len(task[r].answers) = task[r].query_i
        /\ task[r].query_i <= Len(task[r].questions)
        /\ task[r].pc = "respond" => Len(task[r].answers) = Len(task[r].questions)
        /\ \A n \in 1..Len(task[r].answers) :
              task[r].answers[n] \in ResultsFor(task[r].questions[n])

\* C1 witness: a request returns two answers, the first the error sentence
\* and the second a synthesized answer.
C1_Witness ==
    \E r \in Handlers :
        /\ task[r].pc = "respond"
        /\ Len(task[r].questions) = 2
        /\ task[r].answers[1] = ERROR_ANSWER
        /\ task[r].answers[2] \notin {ERROR_ANSWER, NO_MATCH_ANSWER}

\* C2: with requests served one at a time, the index a request answers
\* from is the rebuilt index of its own document: after embed_and_index the
\* document store holds exactly the request's chunks, and every match
\* retrieved for one of its questions is a chunk of its own document.
C2_OwnDocumentOnly ==
    \A r \in Handlers :
        /\ JustIndexed(r) => DOCUMENT_STORE = StoreOf(task[r].chunks)
        /\ task[r].pc = "generate_answer" =>
              MatchContents(task[r].relevant_chunks) \subseteq ChunkContents(task[r].chunks)

\* C3: after an embed_and_index call with a non-empty chunk list that
\* succeeds, whatever the index held before, the document store and the
\* index hold exactly the chunks of that call, and no search returns other
\* content.
C3_SecondSetOnly ==
    \A r \in Handlers :
        (JustIndexed(r) /\ task[r].chunks # <<>>) =>
            /\ DOCUMENT_STORE = StoreOf(task[r].chunks)
            /\ Len(FAISS_INDEX) = Len(task[r].chunks)
            /\ \A q \in AllQuestions, k \in 1..(top_k + 1) :
                  MatchContents(search(FAISS_INDEX, DOCUMENT_STORE, q, k).matches)
                      \subseteq ChunkContents(task[r].chunks)

\* C3 witness: a handler has indexed its chunks and is awaiting its first
\* model call; the other handler has then indexed different chunks.
C3_Witness ==
    \E a \in Handlers, b \in Handlers :
        /\ a # b
        /\ task[a].pc = "model_call" /\ task[a].query_i = 0 /\ task[a].attempt = 0
        /\ MatchContents(task[a].relevant_chunks) \subseteq ChunkContents(task[a].chunks)
        /\ JustIndexed(b)
        /\ task[b].chunks # <<>>
        /\ ChunkContents(task[a].chunks) \cap ChunkContents(task[b].chunks) = {}
        /\ DOCUMENT_STORE = StoreOf(task[b].chunks)

\* C4: after embed_and_index is called with an empty chunk list the index
\* and the document store are empty.
C4_EmptyInputLeavesEmpty ==
    \A r \in Handlers :
        (JustIndexed(r) /\ task[r].chunks = <<>>) =>
            (FAISS_INDEX = <<>> /\ DOCUMENT_STORE = <<>>)

\* C5: in every state the document store has as many entries as the index
\* has vectors, and no search has found a position without an entry in the
\* document store.
C5_StoreMatchesIndex ==
    /\ Len(DOCUMENT_STORE) = Len(FAISS_INDEX)
    /\ \A r \in Handlers : task[r].exception # "search index"

\* C5 witness: an indexing pass has failed in the embedding of its second
\* batch while the other handler is suspended in generate_answer.
C5_Witness ==
    \E r \in Handlers, h \in Handlers :
        /\ r # h
        /\ task[r].pc = "error" /\ task[r].exception = "encode"
        /\ Len(DOCUMENT_STORE) = batch_size
        /\ Suspended(h)

\* Every model call of the generate_answer call of r has ended so far in a
\* rate-limit error.
AllRateLimited(r) ==
    /\ task[r].outcomes # <<>>
    /\ \A n \in 1..Len(task[r].outcomes) : task[r].outcomes[n] = "rate limit"

\* C6: a generate_answer call whose every attempt raises a rate-limit error
\* sleeps after the first failure at least 1 and less than 2 seconds, after
\* the second at least 2 and less than 3 seconds, and after the third
\* failure returns the error sentence without a sleep: 3 model calls, 2
\* sleeps.
C6_RetryBound ==
    \A r \in Handlers :
        AllRateLimited(r) =>
            LET failures == Len(task[r].outcomes)
            IN  /\ failures <= 3
                /\ task[r].model_calls <= 3
                /\ failures < 3 =>
                      /\ task[r].pc \in {"sleep", "model_call"}
                      /\ task[r].sleeps = failures
                      /\ task[r].pc = "sleep" =>
                            /\ task[r].model_calls = failures
                            /\ task[r].wait_time >= failures * JitterSteps
                            /\ task[r].wait_time < (failures + 1) * JitterSteps
                /\ failures = 3 =>
                      /\ task[r].pc = "append"
                      /\ task[r].answer = ERROR_ANSWER
                      /\ task[r].model_calls = 3
                      /\ task[r].sleeps = 2

\* C6 witness: generate_answer returns after three rate-limit errors.
C6_Witness ==
    \E r \in Handlers :
        /\ task[r].pc = "append"
        /\ task[r].outcomes = <<"rate limit", "rate limit", "rate limit">>

\* C7: every generate_answer call that calls the model makes at most 3
\* model calls and 2 sleeps; from an awaited model call it goes to its
\* return or to a sleep, from a sleep to the next model call, never to the
\* exception handler of run_submission; it returns one of the answers of
\* its question; and it does return.
C7_AlwaysAnswers ==
    /\ [](\A r \in Handlers :
            /\ task[r].model_calls <= 3
            /\ task[r].sleeps <= 2
            /\ task[r].pc = "append" =>
                  task[r].answer \in ResultsFor(task[r].questions[task[r].query_i + 1]))
    /\ [][\A r \in Handlers :
            /\ task[r].pc = "model_call" => task'[r].pc \in {"model_call", "append", "sleep"}
            /\ task[r].pc = "sleep" => task'[r].pc \in {"sleep", "model_call"}]_vars
    /\ \A r \in Handlers : (task[r].pc = "model_call") ~> (task[r].pc = "append")

\* C7 witness: generate_answer returns a synthesized answer on its third
\* model call, after two sleeps.
C7_Witness ==
    \E r \in Handlers :
        /\ task[r].pc = "append"
        /\ task[r].model_calls = 3
        /\ task[r].sleeps = 2
        /\ task[r].answer \notin {ERROR_ANSWER, NO_MATCH_ANSWER}

\* C8: generate_answer called with no match returns the no-match sentence
\* and has made no model call and no sleep.
C8_NoMatchNoCall ==
    \A r \in Handlers :
        /\ (task[r].pc = "append" /\ task[r].relevant_chunks = <<>>) =>
              /\ task[r].answer = NO_MATCH_ANSWER
              /\ task[r].model_calls = 0
              /\ task[r].sleeps = 0
        /\ Suspended(r) => task[r].relevant_chunks # <<>>

\* C8 witness: generate_answer has returned the no-match sentence for a
\* question.
C8_Witness ==
    \E r \in Handlers :
        /\ task[r].pc = "append"
        /\ task[r].relevant_chunks = <<>>
        /\ task[r].answer = NO_MATCH_ANSWER
        /\ task[r].query_i < Len(task[r].questions)

\* The number of matches of every search on the current index is
\* min(top_k, index.count), and the search of the handler returned that
\* many.
SearchCounts ==
    /\ \A q \in AllQuestions, k \in 1..(top_k + 2) :
          LET result == search(FAISS_INDEX, DOCUMENT_STORE, q, k)
          IN  ~result.raised /\ Len(result.matches) = Min(k, Len(FAISS_INDEX))
    /\ \A r \in Handlers :
          (running = r /\ task[r].pc = "generate_answer") =>
              Len(task[r].relevant_chunks) = Min(top_k, Len(FAISS_INDEX))

\* The exceptions that search raises.
SearchExceptions == {"search load", "search encode", "search index"}

C10_FailureLeavesCleared ==
    \A r \in Handlers :
        (task[r].pc = "error" /\ task[r].exception = "encode") =>
            (FAISS_INDEX = <<>> /\ DOCUMENT_STORE = <<>>)

\* The exceptions of the stages before the answering phase.
StageExceptions == {"download", "extract", "load", "encode"}

\* C11: a request ends at its return, with status 200 and one answer per
\* question, or in the except clause, with a 500 response that carries no
\* answers, and in no other way; a request that failed in download,
\* extraction or indexing has made no retrieval and no model call and
\* makes none afterwards.
C11_TwoEndings ==
    /\ [](\A r \in Handlers :
            /\ task[r].pc = "respond" =>
                  /\ Response(r).status_code = 200
                  /\ Response(r).answers = task[r].answers
                  /\ Len(Response(r).answers) = Len(task[r].questions)
            /\ task[r].pc = "error" =>
                  /\ Response(r).status_code = 500
                  /\ DOMAIN Response(r) = {"status_code", "detail"}
                  /\ task[r].exception # "none"
            /\ (task[r].pc = "error" /\ task[r].exception \in StageExceptions) =>
                  /\ task[r].query_i = 0
                  /\ task[r].answers = <<>>
                  /\ task[r].relevant_chunks = <<>>
                  /\ task[r].model_calls = 0
                  /\ task[r].outcomes = <<>>)
    /\ [][\A r \in Handlers :
            /\ (task[r].pc # "idle" /\ task'[r].pc = "idle") =>
                  task[r].pc \in {"respond", "error"}
            /\ task[r].pc = "respond" => task'[r].pc \in {"respond", "idle"}
            /\ task[r].pc = "error" => task'[r].pc \in {"error", "idle"}]_vars

\* C11 witness: the search of the second question has raised after the
\* answer of the first was collected; the request ends in the except
\* clause.
C11_Witness ==
    \E r \in Handlers :
        /\ task[r].pc = "error"
        /\ task[r].exception = "search encode"
        /\ Len(task[r].answers) = 1
        /\ Response(r).status_code = 500

\* The sentences packed in a chunk content, split back at the sentence
\* ends; an empty content holds none.
SentencesOf(content) ==
    IF content = <<>> THEN <<>> ELSE SplitSentences(content)

\* The sentences of a chunk list, in chunk order.
RECURSIVE Unpacked(_)
Unpacked(chunks) ==
    IF chunks = <<>> THEN <<>>
    ELSE SentencesOf(Head(chunks).content) \o Unpacked(Tail(chunks))

\* The trimmed segments of a text that pass the length threshold of the
\* chunker, in order.
RetainedOf(text) == RetainedSentences(SplitSentences(ReplaceNewlines(text)))

\* A handler that has just chunked its text.
Chunked(r) == task[r].pc = "embed_and_index"

\* C12: the sentences of the emitted chunks, in chunk order, are exactly
\* the retained sentences of the text in their original order, each once.
C12_NothingLostOrReordered ==
    [][\A r \in Handlers :
          (task[r].pc = "chunk" /\ Chunked(r)') =>
              Unpacked(task'[r].chunks) = RetainedOf(task[r].text)]_vars

\* C12 witness: a text has been chunked into two chunks, the first of
\* which packs two sentences.
C12_Witness ==
    \E r \in Handlers :
        /\ Chunked(r)
        /\ Len(task[r].chunks) = 2
        /\ Len(SentencesOf(task[r].chunks[1].content)) = 2
        /\ Len(SentencesOf(task[r].chunks[2].content)) = 1

\* C13: a chunk that packs two or more sentences has at most chunk_size
\* words; a chunk with more words is one single sentence; and every
\* retained sentence of more than chunk_size words is, whole, the content
\* of a chunk.
C13_BudgetRespected ==
    /\ [](\A r \in Handlers :
            Chunked(r) =>
                \A n \in 1..Len(task[r].chunks) :
                    LET content == task[r].chunks[n].content
                    IN  /\ Len(SentencesOf(content)) >= 2 =>
                              WordCount(content) <= chunk_size
                        /\ WordCount(content) > chunk_size =>
                              Len(SentencesOf(content)) = 1)
    /\ [][\A r \in Handlers :
            (task[r].pc = "chunk" /\ Chunked(r)') =>
                LET retained == RetainedOf(task[r].text)
                IN  \A k \in 1..Len(retained) :
                        WordCount(retained[k]) > chunk_size =>
                            \E n \in 1..Len(task'[r].chunks) :
                                task'[r].chunks[n].content = retained[k]]_vars

\* C13 witness: the chunker has emitted a chunk of two sentences and a
\* chunk that is one sentence of more than chunk_size words.
C13_Witness ==
    \E r \in Handlers :
        /\ Chunked(r)
        /\ \E n \in 1..Len(task[r].chunks) :
              /\ Len(SentencesOf(task[r].chunks[n].content)) = 2
              /\ WordCount(task[r].chunks[n].content) > chunk_size \div 2
        /\ \E n \in 1..Len(task[r].chunks) :
              /\ Len(SentencesOf(task[r].chunks[n].content)) = 1
              /\ WordCount(task[r].chunks[n].content) = chunk_size + 1

\* The trimmed segments of a text, in order, whatever their length.
TrimmedSegments(text) ==
    LET segments == SplitSentences(ReplaceNewlines(text))
    IN  AsSeq([k \in 1..Len(segments) |-> Strip(segments[k])], Len(segments))

\* C18 as stated: every segment of 10 or more characters after trimming,
\* one of exactly 10 characters included, is retained and appears in some
\* chunk; only shorter segments are discarded.
C18_TenCharactersRetained ==
    [][\A r \in Handlers :
          (task[r].pc = "chunk" /\ Chunked(r)') =>
              LET trimmed == TrimmedSegments(task[r].text)
              IN  \A k \in 1..Len(trimmed) :
                      (Len(trimmed[k]) >= 10) <=>
                          \E n \in 1..Len(task'[r].chunks) :
                              \E m \in 1..Len(SentencesOf(task'[r].chunks[n].content)) :
                                  SentencesOf(task'[r].chunks[n].content)[m] = trimmed[k]]_vars

\* C20 as stated: every emitted chunk has a non-empty content of at least
\* one retained sentence, chunk_ids are 0..n-1, and there are at most as
\* many chunks as retained sentences.
C20_NoEmptyChunk ==
    \A r \in Handlers :
        Chunked(r) =>
            /\ \A n \in 1..Len(task[r].chunks) :
                  /\ task[r].chunks[n].content # <<>>
                  /\ Len(SentencesOf(task[r].chunks[n].content)) >= 1
                  /\ task[r].chunks[n].metadata.chunk_id = n - 1
            /\ Len(task[r].chunks) <= Len(Unpacked(task[r].chunks))

\* The contents of the document store.
StoreContents == {DOCUMENT_STORE[n].content : n \in 1..Len(DOCUMENT_STORE)}

\* A handler whose search has just returned, for a document with chunks.
Retrieved(r) ==
    /\ running = r
    /\ task[r].pc = "generate_answer"
    /\ task[r].chunks # <<>>

\* C14: the matches of a question come from whatever the shared store
\* holds at the time of its search (none when the index is empty).  The
\* store holds the request's own chunks at its first question; it can
\* hold something else only at a later question, after the request was
\* suspended in generate_answer and another request ran embed_and_index.
C14_CorruptionNeedsSuspension ==
    \A r \in Handlers :
        Retrieved(r) =>
            /\ MatchContents(task[r].relevant_chunks) \subseteq StoreContents
            /\ (task[r].relevant_chunks = <<>>) <=> (FAISS_INDEX = <<>>)
            /\ DOCUMENT_STORE # StoreOf(task[r].chunks) => task[r].query_i >= 1
            /\ DOCUMENT_STORE = StoreOf(task[r].chunks) =>
                  MatchContents(task[r].relevant_chunks)
                      \subseteq ChunkContents(task[r].chunks)

\* C14 witness: the second question of a request has been given matches,
\* none of which is a chunk of the request's document: another request
\* indexed its document while the first question awaited the model.
C14_Witness ==
    \E r \in Handlers :
        /\ Retrieved(r)
        /\ task[r].query_i >= 1
        /\ task[r].relevant_chunks # <<>>
        /\ MatchContents(task[r].relevant_chunks) \cap ChunkContents(task[r].chunks) = {}
        /\ \A h \in Handlers \ {r} : task[h].pc = "idle"

\* C15: once a model call of a generate_answer call has raised an
\* exception that is not a rate-limit error, on whichever attempt, the call
\* has returned the error sentence, and that model call was its last: it
\* is followed by no model call and no sleep.
C15_OtherErrorsEndTheCall ==
    \A r \in Handlers :
        \A n \in 1..Len(task[r].outcomes) :
            task[r].outcomes[n] = "error" =>
                /\ n = Len(task[r].outcomes)
                /\ task[r].pc = "append"
                /\ task[r].answer = ERROR_ANSWER
                /\ task[r].model_calls = n
                /\ task[r].sleeps = n - 1
                /\ task[r].wait_time = 0

\* C15 witness: the second model call of a generate_answer call, made
\* after one rate-limit error and its sleep, has raised another error.
C15_Witness ==
    \E r \in Handlers :
        /\ task[r].pc = "append"
        /\ task[r].outcomes = <<"rate limit", "error">>
        /\ task[r].answer = ERROR_ANSWER

\* The index and store that one batch of all the chunks gives.
OneBatch(chunks) == IndexBatch([index |-> <<>>, store |-> <<>>], chunks)

\* A handler whose embed_and_index call has returned normally.
Indexed(r) == task[r].pc = "process_all_queries"

\* C16: whatever the batch size, a successful embed_and_index of a
\* non-empty chunk list leaves what one batch of all the chunks leaves:
\* entry i of the document store holds the content and metadata of
\* chunks[i], vector i of the index is the embedding of chunks[i], and
\* both have len(chunks) elements.
C16_BatchingHasNoEffect ==
    \A r \in Handlers :
        (Indexed(r) /\ running = r /\ task[r].query_i = 0 /\ task[r].chunks # <<>>) =>
            /\ [index |-> FAISS_INDEX, store |-> DOCUMENT_STORE] = OneBatch(task[r].chunks)
            /\ Len(FAISS_INDEX) = Len(task[r].chunks)
            /\ Len(DOCUMENT_STORE) = Len(task[r].chunks)
            /\ \A n \in 1..Len(task[r].chunks) :
                  /\ DOCUMENT_STORE[n].content = task[r].chunks[n].content
                  /\ DOCUMENT_STORE[n].metadata = task[r].chunks[n].metadata
                  /\ FAISS_INDEX[n] = Embed(task[r].chunks[n].content)

\* C16 witness: seven chunks have been indexed in batches of three, the
\* last batch holding one chunk.
C16_Witness ==
    \E r \in Handlers :
        /\ Indexed(r)
        /\ Len(task[r].chunks) = 7
        /\ task[r].batch_size = 3
        /\ task[r].batch_i = 9
        /\ Len(DOCUMENT_STORE) = 7

\* The handler r is at an operation that embeds: embed_and_index of a
\* non-empty chunk list, or a search on a non-empty index.
NeedsToEmbed(r) ==
    /\ running = r
    /\ \/ task[r].pc = "embed_and_index" /\ task[r].chunks # <<>>
       \/ /\ task[r].pc = "process_all_queries"
          /\ task[r].query_i < Len(task[r].questions)
          /\ FAISS_INDEX # <<>>

\* C17: the embedding model is not loaded at process start; it changes
\* only in an operation that needs to embed, from not loaded to loaded,
\* and only once: a loaded model stays the same instance; every operation
\* that has embedded something found or left the model loaded.
C17_LoadedOnceLazily ==
    /\ EMBEDDING_MODEL = "None"
    /\ [](/\ EMBEDDING_MODEL \in {"None", "loaded"}
          /\ FAISS_INDEX # <<>> => EMBEDDING_MODEL = "loaded"
          /\ \A r \in Handlers :
                (task[r].pc = "batch" \/ task[r].relevant_chunks # <<>>) =>
                    EMBEDDING_MODEL = "loaded")
    /\ [][/\ EMBEDDING_MODEL # "None" => EMBEDDING_MODEL' = EMBEDDING_MODEL
          /\ EMBEDDING_MODEL' # EMBEDDING_MODEL =>
                /\ EMBEDDING_MODEL' = "loaded"
                /\ \E r \in Handlers : NeedsToEmbed(r)
          /\ \A r \in Handlers :
                (NeedsToEmbed(r) /\ task'[r].pc \notin {"error", task[r].pc}) =>
                    EMBEDDING_MODEL' = "loaded"]_vars

\* C17 witness: a request indexes its chunks with the model that an
\* earlier request, now suspended in generate_answer, has loaded.
C17_Witness ==
    \E r \in Handlers, h \in Handlers :
        /\ r # h
        /\ Suspended(h)
        /\ task[h].relevant_chunks # <<>>
        /\ task[r].pc = "batch"
        /\ running = r
        /\ EMBEDDING_MODEL = "loaded"

\* The chunk lists of the documents of the requests.
DocumentChunkLists ==
    {sentence_aware_chunking(ExtractedText(d), [source |-> d.url]) : d \in Documents}

\* The store holds the entries of the first chunks of a chunk list, in
\* order, and the index their embeddings.
IsPrefixOf(chunks) ==
    /\ Len(DOCUMENT_STORE) <= Len(chunks)
    /\ Len(FAISS_INDEX) = Len(DOCUMENT_STORE)
    /\ \A n \in 1..Len(DOCUMENT_STORE) :
          /\ DOCUMENT_STORE[n] = [content |-> chunks[n].content,
                                  metadata |-> chunks[n].metadata]
          /\ FAISS_INDEX[n] = Embed(chunks[n].content)

\* C19: in every state the document store is a prefix, in order, of the
\* chunk list of one embed_and_index call, never a mix of two; while a
\* handler is in the batch loop it is the prefix of that handler's chunks
\* that the loop has reached, and it is the whole list when the call has
\* returned.
C19_NoInterleavedWrites ==
    /\ \E chunks \in DocumentChunkLists : IsPrefixOf(chunks)
    /\ \A r \in Handlers :
          /\ task[r].pc = "batch" =>
                /\ IsPrefixOf(task[r].chunks)
                /\ Len(DOCUMENT_STORE) = task[r].batch_i
          /\ (JustIndexed(r) /\ task[r].chunks # <<>>) =>
                (IsPrefixOf(task[r].chunks) /\ Len(DOCUMENT_STORE) = Len(task[r].chunks))

\* C19 witness: a handler is in the batch loop, one batch of its nine
\* chunks written over what the other handler, suspended in
\* generate_answer, had indexed for a different document.
C19_Witness ==
    \E r \in Handlers, h \in Handlers :
        /\ r # h
        /\ Suspended(h)
        /\ task[h].chunks # <<>>
        /\ task[h].documents # task[r].documents
        /\ task[r].pc = "batch"
        /\ task[r].batch_i = batch_size
        /\ Len(DOCUMENT_STORE) = batch_size

====
